---- MODULE Spec2Model ----
(***************************************************************************)
(* Model of src/main.rs of ast_traversal: parse_sql seeds every parsed     *)
(* statement into the thread-local arena NODES, writes its identifier to   *)
(* the thread-local cell NEXT and walks it with traversal::DftPre, whose   *)
(* child iterator is StatementIterator (built by stm_iter).                *)
(*                                                                         *)
(* Every "node reference" the program hands to DftPre is the same          *)
(* reference &NEXT; an identifier is obtained from it only by reading the  *)
(* cell (stm_iter, line 126; the consumer, line 212).                      *)
(*                                                                         *)
(* DftPre is the iterator of the external crate `traversal`: new() makes a *)
(* stack holding (0, root); next() pops the top (depth, node), calls the   *)
(* closure on node, collects the returned iterator to its end, pushes the  *)
(* collected children in reverse order with depth + 1 and returns          *)
(* (depth, node).                                                          *)
(***************************************************************************)
EXTENDS Integers, Sequences, FiniteSets, TLC

\* Bounds of the model
MaxFrom == 2
MaxStmts == 2

\* FROM-clause entries the parser can produce (TableWithJoins values)
Tables == {[relation |-> "t1"], [relation |-> "t2"]}

\* Sequences over S of length 0..n
SeqUpTo(S, n) == UNION {[1..k -> S] : k \in 0..n}

\* SetExpr values of sqlparser: Select carries its FROM list, the other
\* variants carry nothing the program looks at.
NoFrom == <<>>
OtherSetExprVariants == {"Query", "SetOperation", "Values", "Insert"}
SetExprs ==
    {[variant |-> "Select", from |-> f] : f \in SeqUpTo(Tables, MaxFrom)}
    \cup {[variant |-> v, from |-> NoFrom] : v \in OtherSetExprVariants}

\* Statement values of sqlparser: Query carries a body, every other variant
\* (here Insert) carries nothing the program looks at.
NoBody == [variant |-> "None", from |-> NoFrom]
Statements ==
    {[variant |-> "Query", body |-> b] : b \in SetExprs}
    \cup {[variant |-> "Insert", body |-> NoBody]}

\* enum Node: the variants the program constructs
NodeStatement(stm) == [kind |-> "Statement", val |-> stm]
NodeSetExpr(se) == [kind |-> "SetExpr", val |-> se]
NodeTableWithJoins(t) == [kind |-> "TableWithJoins", val |-> t]

\* Results of Parser::parse_sql: a ParserError or a vector of statements
\* enum ParserError of sqlparser
ParserErrors == {"TokenizerError", "ParserError"}
ParseResults ==
    {[ok |-> FALSE, err |-> e, stms |-> <<>>] : e \in ParserErrors}
    \cup {[ok |-> TRUE, err |-> "", stms |-> s] : s \in SeqUpTo(Statements, MaxStmts)}

\* Option<T>
None == [some |-> FALSE]
Some(v) == [some |-> TRUE, v |-> v]

VARIABLES
    pc,          \* position in parse_sql / DftPre::next
    parsed,      \* what Parser::parse_sql returned, None before the call
    stmIdx,      \* number of statements the for loop of line 203 has taken
    result,      \* what parse_sql returned
    arena,       \* NODES.arena
    NEXT,        \* the thread-local cell NEXT
    queue,       \* DftPre.queue: a stack of (depth, &NEXT)
    popped,      \* the (depth, node) DftPre::next has popped
    cursor,      \* the StatementIterator being collected
    children,    \* the children collected so far by DftPre::next
    outs,        \* per statement, the items the consumer loop has seen
    tops,        \* per statement, the identifier `top` of line 205
    producedBy   \* per arena slot, the `current` of the cursor that made it

vars == <<pc, parsed, stmIdx, result, arena, NEXT, queue, popped, cursor,
          children, outs, tops, producedBy>>

\* `statements` of line 202
statements == IF parsed.some THEN parsed.v.stms ELSE <<>>

\* Nodes::next_id
next_id(a) == Len(a)

\* Variant of Nodes::new_node that inserts at the front (arena.insert(0, ..))
new_node_at_front(a, node) == <<node>> \o a

\* Nodes::new_node: the extended arena (the returned id is next_id(a))
new_node(a, node) == Append(a, node)

\* Variant of the arena lookup that saturates the index at the last slot
\* (arena.get(current.min(len - 1)))
arena_get_saturating(a, id) ==
    IF a = <<>> THEN None
    ELSE IF id < Len(a) THEN Some(a[id + 1]) ELSE Some(a[Len(a)])

\* Vec::get on the arena; identifiers are zero-based
arena_get(a, id) == IF id >= 0 /\ id < Len(a) THEN Some(a[id + 1]) ELSE None

\* next_put / next_get
next_put(id) == id
next_get(cell) == cell

\* Variant of stm_iter that takes the slot after the one the reference
\* points at
stm_iter_next_slot(cell) == [current |-> next_get(cell) + 1, step |-> 0]

\* stm_iter: the cursor for the node the reference points at
stm_iter(cell) == [current |-> next_get(cell), step |-> 0]

\* Vec::into_iter().rev()
RECURSIVE Reverse(_)
Reverse(s) == IF s = <<>> THEN <<>> ELSE Append(Reverse(Tail(s)), Head(s))

\* The arena never grows beyond one Statement, one SetExpr and MaxFrom
\* TableWithJoins per statement; the bound keeps the state space finite.
MaxArena == MaxStmts * (MaxFrom + 2)

\* What one call of StatementIterator::next leaves behind: the returned
\* Option (some), the cursor, the arena and the cell NEXT.
Exhausted(it, a, cell) == [some |-> FALSE, cursor |-> it, arena |-> a, cell |-> cell]

\* Variant of new_node_closure that forgets `*self.step.borrow_mut() += 1`
new_node_closure_no_step(it, a, cell, node) ==
    [some |-> TRUE,
     cursor |-> it,
     arena |-> new_node(a, node),
     cell |-> next_put(next_id(a))]

\* Variant of new_node_closure that takes the id after the push
\* (nodes_next_id() called after NODES.new_node)
new_node_closure_id_after_push(it, a, cell, node) ==
    [some |-> TRUE,
     cursor |-> [it EXCEPT !.step = @ + 1],
     arena |-> new_node(a, node),
     cell |-> next_put(next_id(new_node(a, node)))]

\* The closure new_node of StatementIterator::next (lines 147-154)
new_node_closure(it, a, cell, node) ==
    [some |-> TRUE,
     cursor |-> [it EXCEPT !.step = @ + 1],
     arena |-> new_node(a, node),
     cell |-> next_put(next_id(a))]

\* Variant of StatementIterator::next whose Statement arm does not look at
\* the variant: every Statement is expanded as if it were a Query.
StatementIterator_next_any_statement(it, a, cell) ==
    LET node == arena_get(a, it.current) IN
    IF ~node.some THEN Exhausted(it, a, cell)
    ELSE IF node.v.kind = "Statement" THEN
        IF it.step = 0
        THEN new_node_closure(it, a, cell, NodeSetExpr(node.v.val.body))
        ELSE Exhausted(it, a, cell)
    ELSE IF node.v.kind = "SetExpr" THEN
        IF node.v.val.variant = "Select" THEN
            IF it.step < Len(node.v.val.from)
            THEN new_node_closure(it, a, cell,
                                  NodeTableWithJoins(node.v.val.from[it.step + 1]))
            ELSE Exhausted(it, a, cell)
        ELSE Exhausted(it, a, cell)
    ELSE Exhausted(it, a, cell)

\* Variant of StatementIterator::next whose Select arm stops one entry
\* early (step + 1 < select.from.len())
StatementIterator_next_skip_last(it, a, cell) ==
    LET node == arena_get(a, it.current) IN
    IF ~node.some THEN Exhausted(it, a, cell)
    ELSE IF node.v.kind = "Statement" THEN
        IF node.v.val.variant = "Query" THEN
            IF it.step = 0
            THEN new_node_closure(it, a, cell, NodeSetExpr(node.v.val.body))
            ELSE Exhausted(it, a, cell)
        ELSE Exhausted(it, a, cell)
    ELSE IF node.v.kind = "SetExpr" THEN
        IF node.v.val.variant = "Select" THEN
            IF it.step + 1 < Len(node.v.val.from)
            THEN new_node_closure(it, a, cell,
                                  NodeTableWithJoins(node.v.val.from[it.step + 1]))
            ELSE Exhausted(it, a, cell)
        ELSE Exhausted(it, a, cell)
    ELSE Exhausted(it, a, cell)

\* StatementIterator::next
StatementIterator_next(it, a, cell) ==
    LET node == arena_get(a, it.current) IN
    IF ~node.some THEN Exhausted(it, a, cell)
    ELSE IF node.v.kind = "Statement" THEN
        IF node.v.val.variant = "Query" THEN
            IF it.step = 0
            THEN new_node_closure(it, a, cell, NodeSetExpr(node.v.val.body))
            ELSE Exhausted(it, a, cell)
        ELSE Exhausted(it, a, cell)
    ELSE IF node.v.kind = "SetExpr" THEN
        IF node.v.val.variant = "Select" THEN
            IF it.step < Len(node.v.val.from)
            THEN new_node_closure(it, a, cell,
                                  NodeTableWithJoins(node.v.val.from[it.step + 1]))
            ELSE Exhausted(it, a, cell)
        ELSE Exhausted(it, a, cell)
    ELSE Exhausted(it, a, cell)

\* Variant of seed that forgets next_put(top)
seed_no_put(a, cell, stm) ==
    LET top == next_id(a) IN
    [top |-> top, arena |-> new_node(a, NodeStatement(stm)), cell |-> cell]

\* Variant of seed that takes `top` after the push (line 205 after 206-208)
seed_top_after_push(a, cell, stm) ==
    LET top == next_id(new_node(a, NodeStatement(stm))) IN
    [top |-> top, arena |-> new_node(a, NodeStatement(stm)), cell |-> next_put(top)]

\* Lines 205-209 of parse_sql: allocate the statement, write `top` to NEXT
seed(a, cell, stm) ==
    LET top == next_id(a) IN
    [top |-> top, arena |-> new_node(a, NodeStatement(stm)), cell |-> next_put(top)]

\* DftPre::new(&NEXT, ..): the stack holds the root reference at depth 0.
\* `made` is history only: the identifier the reference stood for when it
\* was handed over; the program keeps no such value.
DftPre_new(root, made) == <<[depth |-> 0, node |-> root, made |-> made]>>

NoCursor == [current |-> 0, step |-> 0]
NoPopped == [depth |-> 0, node |-> "NEXT", made |-> 0]
NoResult == [kind |-> "None", err |-> ""]

Init ==
    /\ pc = "start"
    /\ parsed = None
    /\ stmIdx = 0
    /\ result = NoResult
    /\ arena = <<>>
    /\ NEXT = 0
    /\ queue = <<>>
    /\ popped = NoPopped
    /\ cursor = NoCursor
    /\ children = <<>>
    /\ outs = <<>>
    /\ tops = <<>>
    /\ producedBy = <<>>

\* Variant of ParseFail that swallows the error (unwrap_or_default instead
\* of `?`) and goes on with an empty vector of statements.
ParseFail_swallowed ==
    /\ pc = "start"
    /\ \E r \in ParseResults :
        /\ ~r.ok
        /\ parsed' = Some(r)
    /\ pc' = "stmts"
    /\ UNCHANGED <<stmIdx, result, arena, NEXT, queue, popped, cursor,
                   children, outs, tops, producedBy>>

\* parse_sql, line 202: the parser rejects the input; `?` converts the
\* ParserError with From (lines 33-37) and returns it.
ParseFail ==
    /\ pc = "start"
    /\ \E r \in ParseResults :
        /\ ~r.ok
        /\ parsed' = Some(r)
        /\ result' = [kind |-> "Parse", err |-> r.err]
    /\ pc' = "done"
    /\ UNCHANGED <<stmIdx, arena, NEXT, queue, popped, cursor,
                   children, outs, tops, producedBy>>

\* parse_sql, line 202: the parser accepts the input
ParseOk ==
    /\ pc = "start"
    /\ \E r \in ParseResults :
        /\ r.ok
        /\ parsed' = Some(r)
    /\ pc' = "stmts"
    /\ UNCHANGED <<stmIdx, result, arena, NEXT, queue, popped, cursor,
                   children, outs, tops, producedBy>>

\* parse_sql, lines 203-210: the loop takes the next statement, seeds it
\* and builds the DftPre over &NEXT.
Seed ==
    /\ pc = "stmts"
    /\ stmIdx < Len(statements)
    /\ LET s == seed(arena, NEXT, statements[stmIdx + 1]) IN
        /\ arena' = s.arena
        /\ NEXT' = s.cell
        /\ tops' = Append(tops, s.top)
        /\ queue' = DftPre_new("NEXT", s.top)
    /\ producedBy' = Append(producedBy, -1)
    /\ outs' = Append(outs, <<>>)
    /\ stmIdx' = stmIdx + 1
    /\ pc' = "dft"
    /\ UNCHANGED <<parsed, result, popped, cursor, children>>

\* parse_sql, lines 219-220: no statement is left, return Ok(())
Return ==
    /\ pc = "stmts"
    /\ stmIdx = Len(statements)
    /\ result' = [kind |-> "Ok", err |-> ""]
    /\ pc' = "done"
    /\ UNCHANGED <<parsed, stmIdx, arena, NEXT, queue, popped, cursor,
                   children, outs, tops, producedBy>>

\* DftPre::next, first half: pop the top of the stack and call the closure
\* |node| stm_iter(node) on it; the cursor reads NEXT now.
DftPop ==
    /\ pc = "dft"
    /\ queue # <<>>
    /\ popped' = queue[Len(queue)]
    /\ queue' = SubSeq(queue, 1, Len(queue) - 1)
    /\ cursor' = stm_iter(NEXT)
    /\ children' = <<>>
    /\ pc' = "collect"
    /\ UNCHANGED <<parsed, stmIdx, result, arena, NEXT, outs, tops, producedBy>>

\* DftPre::next, collect(): one call of StatementIterator::next that
\* returns Some(&NEXT)
Collect ==
    /\ pc = "collect"
    /\ LET r == StatementIterator_next(cursor, arena, NEXT) IN
        /\ r.some
        /\ Len(r.arena) <= MaxArena
        /\ cursor' = r.cursor
        /\ arena' = r.arena
        /\ NEXT' = r.cell
        /\ children' = Append(children, [node |-> "NEXT", made |-> r.cell])
        /\ producedBy' = Append(producedBy, cursor.current)
    /\ UNCHANGED <<pc, parsed, stmIdx, result, queue, popped, outs, tops>>

\* DftPre::next, second half, and the body of the consumer loop (lines
\* 211-217): StatementIterator::next returns None, which ends collect();
\* the children are pushed in reverse order with depth + 1, (depth, node)
\* is returned, and the consumer reads the identifier from the reference
\* and looks the node up.
\* `made`, `cursor` and `len` of an item are history only: the identifier
\* the item was pushed for, the cursor as its exhausting call left it, and
\* the arena length at that call.
DftYield ==
    /\ pc = "collect"
    /\ LET r == StatementIterator_next(cursor, arena, NEXT) IN
        /\ ~r.some
        /\ cursor' = r.cursor
        /\ arena' = r.arena
        /\ NEXT' = r.cell
        /\ queue' = queue \o [i \in 1..Len(children) |->
                                [depth |-> popped.depth + 1,
                                 node |-> Reverse(children)[i].node,
                                 made |-> Reverse(children)[i].made]]
        /\ LET id == next_get(r.cell) IN
            outs' = [outs EXCEPT ![Len(outs)] =
                        Append(@, [level |-> popped.depth,
                                   id |-> id,
                                   node |-> arena_get(r.arena, id),
                                   made |-> popped.made,
                                   cursor |-> r.cursor,
                                   len |-> Len(r.arena)])]
    /\ pc' = "dft"
    /\ UNCHANGED <<parsed, stmIdx, result, popped, children, tops, producedBy>>

\* DftPre::next on an empty stack returns None: the consumer loop ends
DftEnd ==
    /\ pc = "dft"
    /\ queue = <<>>
    /\ pc' = "stmts"
    /\ UNCHANGED <<parsed, stmIdx, result, arena, NEXT, queue, popped,
                   cursor, children, outs, tops, producedBy>>

Next ==
    \/ ParseFail
    \/ ParseOk
    \/ Seed
    \/ Return
    \/ DftPop
    \/ Collect
    \/ DftYield
    \/ DftEnd

Spec == Init /\ [][Next]_vars

\* The program is one sequential thread: it takes its next step whenever
\* it has one.
FairSpec == Spec /\ WF_vars(Next)

(***************************************************************************)
(* Vocabulary of the properties                                            *)
(***************************************************************************)

\* The traversal of the k-th statement has run to its end
Completed(k) == k < stmIdx \/ (k = stmIdx /\ pc \in {"stmts", "done"})

\* The identifiers allocated for the k-th statement, once it is completed
AllocatedFor(k) ==
    {id \in 0..(Len(arena) - 1) :
        /\ id >= tops[k]
        /\ (k < Len(tops) => id < tops[k + 1])}

\* The identifiers the consumer has read during the k-th traversal
YieldedIds(k) == {outs[k][i].id : i \in 1..Len(outs[k])}

\* The items of the k-th traversal at a given depth, in order
AtDepth(k, d) == SelectSeq(outs[k], LAMBDA item : item.level = d)

\* The node of an item: the arena node found under the identifier the
\* consumer read when the item was yielded
IsNode(item, level, node) == item.level = level /\ item.node = Some(node)

IsQuery(stm) == stm.variant = "Query"
IsSelect(stm) == IsQuery(stm) /\ stm.body.variant = "Select"

\* C1: a Query whose body is a SELECT with one FROM entry yields exactly
\* three items: depth 0 the Statement node, depth 1 the SetExpr node,
\* depth 2 the TableWithJoins node.
C1_ThreeItemsInOrder ==
    \A k \in 1..Len(outs) :
        (Completed(k) /\ IsSelect(statements[k])
            /\ Len(statements[k].body.from) = 1) =>
            /\ Len(outs[k]) = 3
            /\ IsNode(outs[k][1], 0, NodeStatement(statements[k]))
            /\ IsNode(outs[k][2], 1, NodeSetExpr(statements[k].body))
            /\ IsNode(outs[k][3], 2, NodeTableWithJoins(statements[k].body.from[1]))

\* C2: a SELECT with n FROM entries yields exactly n items at depth 2, the
\* i-th being the TableWithJoins node of from[i], each entry once.
C2_FromEntriesInOrder ==
    \A k \in 1..Len(outs) :
        (Completed(k) /\ IsSelect(statements[k])) =>
            LET from == statements[k].body.from
                d2 == AtDepth(k, 2)
            IN  /\ Len(d2) = Len(from)
                /\ \A i \in 1..Len(d2) :
                    /\ IsNode(d2[i], 2, NodeTableWithJoins(from[i]))
                    /\ \A j \in 1..Len(d2) : i # j => d2[i].id # d2[j].id

\* C3: during one traversal no identifier is read by the consumer at two
\* distinct positions of the yielded sequence.
C3_NoIdentifierTwice ==
    \A k \in 1..Len(outs) :
        \A i, j \in 1..Len(outs[k]) :
            i # j => outs[k][i].id # outs[k][j].id

\* C4: the root is yielded first at depth 0; the node of every item at
\* depth d > 0 was produced by an enumerator call on a parent that was
\* yielded earlier at depth d - 1.
C4_PreOrder ==
    \A k \in 1..Len(outs) :
        \A i \in 1..Len(outs[k]) :
            LET item == outs[k][i] IN
            /\ item.id < Len(producedBy)
            /\ (i = 1 => item.level = 0 /\ item.id = tops[k])
            /\ (item.level > 0 =>
                    \E j \in 1..(i - 1) :
                        /\ outs[k][j].id = producedBy[item.id + 1]
                        /\ outs[k][j].level = item.level - 1)

\* C5: after a traversal has run to its end every node allocated for its
\* statement has been yielded; at the end the arena length is the number
\* of distinct identifiers yielded.
C5_AllAllocatedVisited ==
    /\ \A k \in 1..Len(outs) :
        Completed(k) => AllocatedFor(k) \subseteq YieldedIds(k)
    /\ (pc = "done" /\ result.kind = "Ok") =>
        Len(arena) = Cardinality(UNION {YieldedIds(k) : k \in 1..Len(outs)})

\* C6: a Query whose body is not a SELECT yields exactly two items, the
\* Statement node at depth 0 and the SetExpr node at depth 1, and parse_sql
\* reports no error.
C6_GracefulTruncation ==
    /\ \A k \in 1..Len(outs) :
        (Completed(k) /\ IsQuery(statements[k]) /\ ~IsSelect(statements[k])) =>
            /\ Len(outs[k]) = 2
            /\ IsNode(outs[k][1], 0, NodeStatement(statements[k]))
            /\ IsNode(outs[k][2], 1, NodeSetExpr(statements[k].body))
    /\ (parsed.some /\ parsed.v.ok) => result.kind \in {"None", "Ok"}

\* C7: when the parser rejects the input, parse_sql returns the Parse error
\* wrapping the parser's error and nothing else happens: no node is
\* allocated, NEXT is not written, no item is yielded, and no step follows.
C7_ParseErrorOnly ==
    [][/\ (~parsed.some /\ parsed'.some /\ ~parsed'.v.ok) =>
            /\ result' = [kind |-> "Parse", err |-> parsed'.v.err]
            /\ pc' = "done"
            /\ arena' = arena
            /\ NEXT' = NEXT
            /\ outs' = outs
            /\ queue' = queue
       /\ (parsed.some /\ ~parsed.v.ok) => UNCHANGED vars]_vars

C7_Witness ==
    /\ pc = "done"
    /\ parsed.some /\ ~parsed.v.ok
    /\ result = [kind |-> "Parse", err |-> "TokenizerError"]
    /\ arena = <<>> /\ NEXT = 0 /\ outs = <<>>

\* The nodes the enumerator has no arm for: everything but a
\* Statement::Query and a SetExpr::Select
Unhandled(node) ==
    /\ ~(node.kind = "Statement" /\ node.val.variant = "Query")
    /\ ~(node.kind = "SetExpr" /\ node.val.variant = "Select")

\* The driver has returned, in the k-th traversal, the item that was pushed
\* for the node id
ItemYieldedFor(k, id) == \E i \in 1..Len(outs[k]) : outs[k][i].made = id

\* b is a later sibling of a: both were produced by calls on the same cursor
\* node, b after a
LaterSibling(a, b) ==
    /\ a < b
    /\ producedBy[a + 1] # -1
    /\ producedBy[a + 1] = producedBy[b + 1]

KindSeq(items) ==
    [i \in 1..Len(items) |->
        <<items[i].level,
          IF items[i].node.some THEN items[i].node.v.kind ELSE "none">>]

\* C9: two traversals of the same statement in one input yield the same
\* sequence of (depth, node-kind) pairs, although the second starts on an
\* arena and a cell NEXT the first has used.
C9_Determinism ==
    \A j, k \in 1..Len(outs) :
        (j < k /\ Completed(j) /\ Completed(k) /\ statements[j] = statements[k]) =>
            KindSeq(outs[j]) = KindSeq(outs[k])

C9_Witness ==
    /\ pc = "done"
    /\ Len(outs) = 2
    /\ statements[1] = statements[2]
    /\ IsSelect(statements[1])
    /\ Len(outs[1]) >= 3
    /\ KindSeq(outs[1]) = KindSeq(outs[2])
    /\ NEXT > tops[2]

\* C10: every traversal is finite: once started, the driver's stack
\* eventually becomes empty and the consumer loop ends.
C10_TraversalEnds ==
    (pc \in {"dft", "collect"}) ~> (pc = "stmts" /\ queue = <<>>)

C10_Witness ==
    /\ pc = "stmts"
    /\ queue = <<>>
    /\ stmIdx >= 1
    /\ Len(outs[stmIdx]) = MaxFrom + 2

\* C11: the identifier the consumer reads for a yielded item is the
\* identifier of the node the item stands for: the seeded root for the
\* first item, the identifier allocated by the producing enumerator call
\* for every other item.
C11_ReadIdIsItemId ==
    \A k \in 1..Len(outs) :
        \A i \in 1..Len(outs[k]) :
            /\ outs[k][i].id = outs[k][i].made
            /\ (i = 1 => outs[k][i].made = tops[k])

\* The number of arena slots produced by enumerator calls on node id
ChildrenOf(id) ==
    Cardinality({j \in 1..Len(producedBy) : producedBy[j] = id})

\* C12: every cursor is bound to the node of its own frame: while a frame
\* is expanded its cursor's `current` is the identifier the frame was pushed
\* for, two frames of a traversal are never expanded through the same
\* node, and a cursor's step counts the children of its own node only.
C12_CursorOwnNode ==
    /\ pc = "collect" =>
        /\ cursor.current = popped.made
        /\ cursor.step = Len(children)
    /\ \A k \in 1..Len(outs) :
        \A i \in 1..Len(outs[k]) :
            /\ outs[k][i].cursor.current = outs[k][i].made
            /\ outs[k][i].cursor.step = ChildrenOf(outs[k][i].made)
            /\ \A j \in 1..Len(outs[k]) :
                i # j => outs[k][i].cursor.current # outs[k][j].cursor.current

\* C13: children are materialized only after their parent is yielded: when
\* an item is yielded, no arena slot existing at that moment was produced
\* by an enumerator call on the item's node.
C13_ChildrenAfterYield ==
    \A k \in 1..Len(outs) :
        \A i \in 1..Len(outs[k]) :
            \A j \in 1..outs[k][i].len :
                /\ producedBy[j] # outs[k][i].made
                /\ producedBy[j] # outs[k][i].cursor.current

\* C14: every call of the enumerator either (a) appends exactly one node,
\* adds one to the cursor's step and reports the new identifier, which is
\* the arena length before the call, or (b) reports exhaustion and leaves
\* the arena, the cursor and NEXT unchanged.
C14_OneNodeOrExhaustion ==
    [][pc = "collect" =>
        \/ /\ pc' = "collect"
           /\ Len(arena') = Len(arena) + 1
           /\ SubSeq(arena', 1, Len(arena)) = arena
           /\ cursor' = [cursor EXCEPT !.step = cursor.step + 1]
           /\ NEXT' = Len(arena)
           /\ Len(children') = Len(children) + 1
           /\ children'[Len(children')].made = Len(arena)
        \/ /\ pc' = "dft"
           /\ arena' = arena
           /\ cursor' = cursor
           /\ NEXT' = NEXT
           /\ children' = children]_vars

C14_Witness ==
    /\ pc = "dft"
    /\ Len(children) = MaxFrom
    /\ cursor.step = MaxFrom
    /\ NEXT = Len(arena) - 1
    /\ Len(outs[stmIdx]) = 2

\* C15: exhaustion is permanent for a cursor: a cursor that has reported
\* exhaustion reports exhaustion again when called in any later state,
\* whatever has been allocated into the arena since.
C15_ExhaustionPermanent ==
    \A k \in 1..Len(outs) :
        \A i \in 1..Len(outs[k]) :
            LET r == StatementIterator_next(outs[k][i].cursor, arena, NEXT) IN
            /\ ~r.some
            /\ r.arena = arena
            /\ r.cursor = outs[k][i].cursor

\* A cursor that produced children before it was exhausted, and an arena
\* that other cursors and a later statement have extended since
C15_Witness ==
    /\ Len(outs) = 2
    /\ Len(outs[2]) >= 2
    /\ \E i \in 1..Len(outs[1]) :
        /\ outs[1][i].cursor.step = MaxFrom
        /\ Len(arena) >= outs[1][i].len + 2
        /\ ~StatementIterator_next(outs[1][i].cursor, arena, NEXT).some

\* The number of children the enumeration table gives a node
childCount(node) ==
    IF node.kind = "Statement" /\ node.val.variant = "Query" THEN 1
    ELSE IF node.kind = "SetExpr" /\ node.val.variant = "Select"
         THEN Len(node.val.from)
    ELSE 0

\* The child the enumeration table gives a node at step i (from 0)
childAt(node, i) ==
    IF node.kind = "Statement"
    THEN NodeSetExpr(node.val.body)
    ELSE NodeTableWithJoins(node.val.from[i + 1])

\* C16: a cursor queried until exhaustion has produced exactly
\* childCount(node) children: the body of a Statement::Query as a SetExpr,
\* the entries from[0], from[1], .. of a SetExpr::Select as TableWithJoins,
\* in this order, and nothing for any other node.
C16_ChildrenPerKind ==
    /\ \A k \in 1..Len(outs) :
        \A i \in 1..Len(outs[k]) :
            outs[k][i].cursor.step =
                childCount(arena[outs[k][i].cursor.current + 1])
    /\ (pc = "dft" /\ outs # <<>> /\ outs[Len(outs)] # <<>>) =>
        LET node == arena[cursor.current + 1] IN
        /\ Len(children) = childCount(node)
        /\ \A i \in 1..Len(children) :
            arena[children[i].made + 1] = childAt(node, i - 1)

C16_Witness ==
    /\ pc = "dft"
    /\ outs # <<>>
    /\ Len(outs[Len(outs)]) = 2
    /\ Len(children) = MaxFrom
    /\ arena[children[1].made + 1] # arena[children[2].made + 1]
    /\ arena[cursor.current + 1].kind = "SetExpr"

\* The identifiers the program holds: NEXT, the roots, the cursor under
\* collection and the identifiers the stack items were pushed for
IdsInUse ==
    {tops[k] : k \in 1..Len(tops)}
    \cup {queue[i].made : i \in 1..Len(queue)}
    \cup {children[i].made : i \in 1..Len(children)}
    \cup (IF arena = <<>> THEN {} ELSE {NEXT})
    \cup (IF pc = "collect" THEN {cursor.current} ELSE {})

\* C17: the arena is append-only and dense: every step leaves it unchanged
\* or appends exactly one node, whose identifier (the one handed out) is
\* the length before the step; stored nodes never change or disappear, and
\* every identifier in use is in 0..len-1.
C17_ArenaAppendOnly ==
    [][/\ \/ arena' = arena
          \/ /\ Len(arena') = Len(arena) + 1
             /\ SubSeq(arena', 1, Len(arena)) = arena
             /\ NEXT' = Len(arena)
       /\ IdsInUse' \subseteq 0..(Len(arena') - 1)
       /\ Len(producedBy') = Len(arena')]_vars

C17_Witness ==
    /\ pc = "done"
    /\ Len(arena) = MaxArena
    /\ arena[1] # arena[MaxFrom + 3]

\* C18: the out-of-range lookup is unreachable in a traversal started by
\* parse_sql: at every enumerator call the cursor's `current` is smaller
\* than the arena length, and so is every identifier the consumer reads.
C18_LookupInRange ==
    /\ pc = "collect" =>
        /\ cursor.current < Len(arena)
        /\ arena_get(arena, cursor.current).some
    /\ \A k \in 1..Len(outs) :
        \A i \in 1..Len(outs[k]) :
            /\ outs[k][i].id < outs[k][i].len
            /\ outs[k][i].node.some
            /\ outs[k][i].cursor.current < outs[k][i].len

C18_Witness ==
    /\ pc = "collect"
    /\ Len(outs) = 2
    /\ Len(outs[2]) = 2
    /\ cursor.current = Len(arena) - 1
    /\ outs[2][2].id = Len(arena) - 1

(***************************************************************************)
(* StatementIterator::next on its own: the enumerator is applied once to a *)
(* cursor, an arena and a cell drawn from bounded sets, which include the  *)
(* cursors whose `current` lies beyond the arena.                          *)
(***************************************************************************)

\* The arena parse_sql builds for one statement, fully expanded
Expansion(stm) ==
    <<NodeStatement(stm)>>
    \o (IF stm.variant = "Query"
        THEN <<NodeSetExpr(stm.body)>>
             \o [i \in 1..Len(stm.body.from) |->
                    NodeTableWithJoins(stm.body.from[i])]
        ELSE <<>>)

\* The arenas of one statement at any moment of its expansion, and the
\* empty arena
EnumArenas ==
    UNION {{SubSeq(Expansion(stm), 1, n) : n \in 0..Len(Expansion(stm))} :
            stm \in Statements}

\* The identifiers a drawn cursor or cell may hold: all of the largest
\* arena and one beyond it
EnumIds == 0..(MaxFrom + 2)

InitEnum ==
    /\ pc = "enum"
    /\ parsed = None
    /\ stmIdx = 0
    /\ result = NoResult
    /\ arena \in EnumArenas
    /\ NEXT \in EnumIds
    /\ queue = <<>>
    /\ popped = NoPopped
    /\ cursor \in [current : EnumIds, step : 0..MaxFrom]
    /\ children = <<>>
    /\ outs = <<>>
    /\ tops = <<>>
    /\ producedBy = <<>>

\* One call of StatementIterator::next; pc records what it returned and
\* children the reference it handed out
EnumCall ==
    /\ pc = "enum"
    /\ LET r == StatementIterator_next(cursor, arena, NEXT) IN
        /\ cursor' = r.cursor
        /\ arena' = r.arena
        /\ NEXT' = r.cell
        /\ pc' = IF r.some THEN "enumSome" ELSE "enumNone"
        /\ children' = IF r.some
                       THEN <<[node |-> "NEXT", made |-> r.cell]>>
                       ELSE <<>>
    /\ UNCHANGED <<parsed, stmIdx, result, queue, popped, outs, tops, producedBy>>

EnumSpec == InitEnum /\ [][EnumCall]_vars

\* C19: an enumerator call on a cursor whose `current` is not in the arena
\* reports exhaustion and leaves the arena, the step counter and NEXT
\* unchanged.
C19_MissIsExhaustion ==
    [][(pc = "enum" /\ cursor.current >= Len(arena)) =>
        /\ pc' = "enumNone"
        /\ arena' = arena
        /\ cursor' = cursor
        /\ NEXT' = NEXT]_vars

C19_Witness ==
    /\ pc = "enumNone"
    /\ cursor.current >= Len(arena)
    /\ Len(arena) >= 2
    /\ arena[Len(arena)].kind = "SetExpr"
    /\ arena[Len(arena)].val.variant = "Select"
    /\ cursor.step < Len(arena[Len(arena)].val.from)

\* C20: the statements of one input are traversed one after another over
\* the same arena: each root is the Statement node stored under the arena
\* length at its seeding, every identifier read during a statement's
\* traversal is at least its root identifier, and the nodes stored before
\* are left unchanged.
C20_StatementsInTurn ==
    [][/\ stmIdx' # stmIdx =>
            /\ stmIdx' = stmIdx + 1
            /\ queue = <<>>
            /\ Completed(stmIdx)
            /\ tops'[stmIdx'] = Len(arena)
            /\ Len(arena') = Len(arena) + 1
            /\ arena'[Len(arena) + 1] = NodeStatement(statements[stmIdx'])
       /\ Len(arena') >= Len(arena)
       /\ SubSeq(arena', 1, Len(arena)) = arena
       /\ \A k \in 1..Len(outs') :
            \A i \in 1..Len(outs'[k]) : outs'[k][i].id >= tops'[k]]_vars

C20_Witness ==
    /\ pc = "done"
    /\ Len(outs) = 2
    /\ tops[2] = MaxFrom + 2
    /\ Len(outs[1]) = MaxFrom + 2
    /\ Len(outs[2]) = MaxFrom + 2
    /\ \A i \in 1..Len(outs[2]) : outs[2][i].id > tops[2]

====
